---- MODULE Spec2Model ----
(***************************************************************************)
(* Model of the synchronize-symitar action: the license validation retry   *)
(* loop (validateApiKey), the orchestrator (synchronizeToSymitar) and its  *)
(* two transport paths (synchronizeViaHTTPs, synchronizeViaSSH).           *)
(*                                                                         *)
(* Every action is one synchronous segment of the code: it starts where a  *)
(* promise settles (or the call begins) and runs to the next await.        *)
(***************************************************************************)
EXTENDS Integers, Sequences, FiniteSets, TLC

(***************************************************************************)
(* Bounds of the model.                                                    *)
(***************************************************************************)
\* longest API key drawn as an input
MaxKeyLen == 2
\* most entries of the subscriptions array in a license payload
MaxSubs == 2
\* longest file list the transport returns
MaxFiles == 1

(***************************************************************************)
(* Program constants.                                                      *)
(***************************************************************************)
MAX_API_RETRIES == 3
API_REQUEST_TIMEOUT_MS == 30000
BackoffBaseMs == 500
BackoffCapMs == 10000
LicensePort == 443

\* symitarAppPort?: number  -- the absent value of the optional field
Undefined == [kind |-> "undefined", val |-> 0]
\* a value of the field that is a number: n, or NaN
JsNumber(n) == [kind |-> "number", val |-> n]
JsNaN == [kind |-> "NaN", val |-> 0]

(***************************************************************************)
(* Small helpers.                                                          *)
(***************************************************************************)
RECURSIVE Pow2(_)
Pow2(n) == IF n <= 0 THEN 1 ELSE 2 * Pow2(n - 1)

Min(a, b) == IF a <= b THEN a ELSE b

SeqsUpTo(S, n) == UNION {[1..k -> S] : k \in 0..n}

(***************************************************************************)
(* Strings are sequences of characters; " " and "\t" are white space.      *)
(***************************************************************************)
Chars == {" ", "k"}
WhiteSpace ==
  {" ", "\t", "\n", "\r", "\f", "U+000B", "U+00A0", "U+1680", "U+2000",
   "U+2001", "U+2002", "U+2003", "U+2004", "U+2005", "U+2006", "U+2007",
   "U+2008", "U+2009", "U+200A", "U+2028", "U+2029", "U+202F", "U+205F",
   "U+3000", "U+FEFF"}

RECURSIVE TrimStart(_)
TrimStart(s) ==
  IF s # <<>> /\ Head(s) \in WhiteSpace THEN TrimStart(Tail(s)) ELSE s

RECURSIVE TrimEnd(_)
TrimEnd(s) ==
  IF s # <<>> /\ s[Len(s)] \in WhiteSpace
  THEN TrimEnd(SubSeq(s, 1, Len(s) - 1))
  ELSE s

\* String.prototype.trim
Trim(s) == TrimEnd(TrimStart(s))

\* the characters of the model whose code unit is above 255
AboveLatin1 ==
  {"U+0100", "U+1680", "U+2000", "U+2001", "U+2002", "U+2003", "U+2004",
   "U+2005", "U+2006", "U+2007", "U+2008", "U+2009", "U+200A", "U+2028",
   "U+2029", "U+202F", "U+205F", "U+3000", "U+FEFF"}

\* a string fetch() cannot convert to the bytes of a header value: it holds
\* a code unit above 255
NotByteString(s) == \E i \in 1..Len(s) : s[i] \in AboveLatin1

\* a string fetch() does not accept as the value of a request header: with
\* the HTTP white space at its ends taken off, it still holds a line break
\* or a NUL
HttpWhiteSpace == {" ", "\t", "\n", "\r"}
IllegalHeaderValue(s) ==
  \E i, j, k \in 1..Len(s) :
    /\ i <= j /\ j <= k
    /\ s[i] \notin HttpWhiteSpace
    /\ s[k] \notin HttpWhiteSpace
    /\ s[j] \in {"\n", "\r", "U+0000"}

\* !apiKey || !apiKey.trim()   (the empty string is falsy)
IsBlankKeyNoTrim(apiKey) == apiKey = <<>>
IsBlankKey(apiKey) == apiKey = <<>> \/ Trim(apiKey) = <<>>

(***************************************************************************)
(* Directory types.                                                        *)
(***************************************************************************)
DirectoryTypes == {"powerOns", "letterFiles", "dataFiles", "helpFiles"}

DIRECTORY_CONFIG ==
  [t \in DirectoryTypes |->
     CASE t = "powerOns" ->
            [name |-> "PowerOns", symitarDirectory |-> "REPWRITERSPECS",
             defaultPath |-> "REPWRITERSPECS/", supportsInstall |-> TRUE]
       [] t = "letterFiles" ->
            [name |-> "LetterFiles", symitarDirectory |-> "LETTERSPECS",
             defaultPath |-> "LETTERSPECS/", supportsInstall |-> FALSE]
       [] t = "dataFiles" ->
            [name |-> "DataFiles", symitarDirectory |-> "DATAFILES",
             defaultPath |-> "DATAFILES/", supportsInstall |-> FALSE]
       [] t = "helpFiles" ->
            [name |-> "HelpFiles", symitarDirectory |-> "HELPFILES",
             defaultPath |-> "HELPFILES/", supportsInstall |-> FALSE]]

\* property names every object literal inherits from Object.prototype
InheritedKeys ==
  {"toString", "constructor", "valueOf", "hasOwnProperty", "isPrototypeOf",
   "propertyIsEnumerable", "toLocaleString", "__proto__",
   "__defineGetter__", "__defineSetter__", "__lookupGetter__",
   "__lookupSetter__"}

\* the value of a property that is not there
JsUndefined == "undefined"

\* DIRECTORY_CONFIG[type] for a name the `in` operator accepts: an own entry,
\* or the inherited function, whose only field of the four is its name
Member(type) ==
  IF type \in DOMAIN DIRECTORY_CONFIG
  THEN DIRECTORY_CONFIG[type]
  ELSE [name |-> IF type = "constructor" THEN "Object"
                 ELSE IF type = "__proto__" THEN JsUndefined ELSE type,
        symitarDirectory |-> JsUndefined, defaultPath |-> JsUndefined,
        supportsInstall |-> FALSE]

\* type in DIRECTORY_CONFIG   (`in` also finds inherited properties)
isValidDirectoryType(type) ==
  type \in DOMAIN DIRECTORY_CONFIG \/ type \in InheritedKeys

\* Object.keys(DIRECTORY_CONFIG): own keys, in insertion order
ValidTypesListed == <<"powerOns", "letterFiles", "dataFiles", "helpFiles">>

SyncModes == {"push", "pull", "mirror"}

\* getSyncMode: the default branch of the switch throws
isValidSyncMode(mode) == mode \in SyncModes

\* getSyncMode: the SymitarSyncMode member a valid mode maps to
getSyncMode(mode) ==
  CASE mode = "push" -> "SymitarSyncMode.PUSH"
    [] mode = "pull" -> "SymitarSyncMode.PULL"
    [] mode = "mirror" -> "SymitarSyncMode.MIRROR"

\* getInstallList(directoryType, installPowerOns)
getInstallListUnfiltered(directoryType, installPowerOns) == installPowerOns
getInstallList(directoryType, installPowerOns) ==
  IF Member(directoryType).supportsInstall
  THEN installPowerOns
  ELSE <<>>

\* an optional string argument: <<>> when it was not passed, <<s>> when the
\* string s was
PathUndefined == <<>>

\* getLocalDirectoryPath(directoryType, inputPath?): '' and undefined are
\* falsy
getLocalDirectoryPathIgnoresInput(directoryType, inputPath) ==
  Member(directoryType).defaultPath
getLocalDirectoryPath(directoryType, inputPath) ==
  IF inputPath # PathUndefined /\ inputPath[1] # ""
  THEN inputPath[1]
  ELSE Member(directoryType).defaultPath

(***************************************************************************)
(* Errors.  One record shape for every error so that any two are           *)
(* comparable; the fields an error class does not have hold a blank.       *)
(* stack tells whether error.stack is truthy: it is for every error the    *)
(* program or the runtime constructs.                                      *)
(***************************************************************************)
NoKey == <<>>

MkError(kind, message, apiKey, host, port, isSSL, originalError) ==
  [kind |-> kind, message |-> message, apiKey |-> apiKey, host |-> host,
   port |-> port, isSSL |-> isSSL, originalError |-> originalError,
   stack |-> TRUE]

\* an error whose stack property is missing or empty
WithoutStack(err) == [err EXCEPT !.stack = FALSE]

\* a host name is the sequence of its non-empty pieces, in order
NoHost == <<>>

\* the originalError of an error: <<>> when it has none, <<e>> when it is
\* the Error e, of which the message and the presence of a stack are kept
NoOriginal == <<>>
Original(err) == <<[message |-> err.message, stack |-> err.stack]>>

NoError == MkError("none", "", NoKey, NoHost, 0, FALSE, NoOriginal)

\* new Error(message)
PlainError(message) ==
  MkError("Error", message, NoKey, NoHost, 0, FALSE, NoOriginal)

\* new AuthenticationError(message, apiKey, host)
AuthenticationError(message, apiKey, host) ==
  MkError("AuthenticationError", message, apiKey, host, 0, FALSE,
          NoOriginal)

\* new ConnectionError(message, host, port, isSSL, originalError)
ConnectionError(message, host, port, isSSL, originalError) ==
  MkError("ConnectionError", message, NoKey, host, port, isSSL, originalError)

(***************************************************************************)
(* The licensing endpoint's answers.                                       *)
(***************************************************************************)
HttpStatuses == {200, 401, 500}

\* Response.ok of the fetch API: the status is in the range 200-299
ResponseOk(status) == status >= 200 /\ status <= 299

\* what response.json() can resolve to
NullPayload ==
  [jsType |-> "null", isFoundKind |-> "absent", isFound |-> FALSE,
   subsKind |-> "absent", subsLen |-> 0]
StringPayload ==
  [jsType |-> "string", isFoundKind |-> "absent", isFound |-> FALSE,
   subsKind |-> "absent", subsLen |-> 0]
ObjectPayloads ==
  {[jsType |-> "object", isFoundKind |-> "absent", isFound |-> FALSE,
    subsKind |-> sk, subsLen |-> 0] : sk \in {"absent", "nonarray"}}
  \cup {[jsType |-> "object", isFoundKind |-> "nonboolean", isFound |-> FALSE,
         subsKind |-> sk, subsLen |-> 0] : sk \in {"absent", "nonarray"}}
  \cup {[jsType |-> "object", isFoundKind |-> "boolean", isFound |-> f,
         subsKind |-> sk, subsLen |-> 0] :
           f \in BOOLEAN, sk \in {"absent", "nonarray"}}
  \cup {[jsType |-> "object", isFoundKind |-> ik, isFound |-> FALSE,
         subsKind |-> "array", subsLen |-> n] :
           ik \in {"absent", "nonboolean"}, n \in 0..MaxSubs}
  \cup {[jsType |-> "object", isFoundKind |-> "boolean", isFound |-> f,
         subsKind |-> "array", subsLen |-> n] :
           f \in BOOLEAN, n \in 0..MaxSubs}
Payloads == {NullPayload, StringPayload} \cup ObjectPayloads
NoPayload ==
  [jsType |-> "none", isFoundKind |-> "absent", isFound |-> FALSE,
   subsKind |-> "absent", subsLen |-> 0]

\* type guard of the subscription response
isSubscriptionResponse(data) ==
  /\ data.jsType = "object"
  /\ data.isFoundKind # "absent"
  /\ data.isFoundKind = "boolean"
  /\ data.subsKind # "absent"
  /\ data.subsKind = "array"

(***************************************************************************)
(* The response classification of one attempt (the body of the try block   *)
(* once the payload is known): "success" or the AuthenticationError        *)
(* thrown.  Every AuthenticationError of the loop is built with host ''.   *)
(***************************************************************************)
ClassifyPayloadNoSubsCheck(apiKey, data) ==
  IF ~isSubscriptionResponse(data)
  THEN AuthenticationError("Invalid response format from license server",
                           apiKey, NoHost)
  ELSE IF ~data.isFound
  THEN AuthenticationError("Provided API key was not found", apiKey, NoHost)
  ELSE NoError

ClassifyPayload(apiKey, data) ==
  IF ~isSubscriptionResponse(data)
  THEN AuthenticationError("Invalid response format from license server",
                           apiKey, NoHost)
  ELSE IF ~data.isFound
  THEN AuthenticationError("Provided API key was not found", apiKey, NoHost)
  ELSE IF data.subsLen = 0
  THEN AuthenticationError("No active subscription found", apiKey, NoHost)
  ELSE NoError

\* if (!response.ok) throw new AuthenticationError(...)
StatusError(apiKey, status) ==
  AuthenticationError("Failed to validate API key", apiKey, NoHost)

(***************************************************************************)
(* The catch block of an attempt.                                          *)
(***************************************************************************)
\* error instanceof AuthenticationError || error instanceof ConnectionError
\*   || attempt >= MAX_API_RETRIES
ThrowsImmediatelyOnlyCustom(err, k) ==
  err.kind \in {"AuthenticationError", "ConnectionError"}
ThrowsImmediatelyRetryAuth(err, k) ==
  err.kind = "ConnectionError" \/ k >= MAX_API_RETRIES
ThrowsImmediatelyOneShort(err, k) ==
  err.kind \in {"AuthenticationError", "ConnectionError"}
    \/ k >= MAX_API_RETRIES - 1
ThrowsImmediately(err, k) ==
  err.kind \in {"AuthenticationError", "ConnectionError"}
    \/ k >= MAX_API_RETRIES

\* `license${isSandbox ? '.libum-sandbox' : ''}.libum.io`
Pieces(s) == SelectSeq(s, LAMBDA piece : piece # "")
ErrorHost(e) ==
  Pieces(<<"license", IF e.isSandbox THEN ".libum-sandbox" ELSE "",
           ".libum.io">>)

\* host of `https://${sstStagePrefix}license${...}.libum.io/...`
UrlHost(e) ==
  Pieces(<<e.sstStagePrefix, "license",
           IF e.isSandbox THEN ".libum-sandbox" ELSE "", ".libum.io">>)

\* what the catch block throws when it throws
ThrownError(e, err) ==
  IF err.kind \in {"AuthenticationError", "ConnectionError"}
  THEN err
  ELSE ConnectionError(
         "Failed to fetch PowerOn Pipelines API key subscription data after multiple attempts",
         ErrorHost(e), LicensePort, TRUE, Original(err))

\* Math.min(500 * Math.pow(2, attempt - 1), 10000)
BackoffDelayOffByOne(k) == Min(BackoffBaseMs * Pow2(k), BackoffCapMs)
BackoffDelay(k) == Min(BackoffBaseMs * Pow2(k - 1), BackoffCapMs)

\* clearTimeout(timeout): a timer that already fired is simply not pending
ClearTimeoutForgotten(pending, id) == pending
ClearTimeout(pending, id) == pending \ {id}

(***************************************************************************)
(* The transport's outcome and the orchestrator's result.                  *)
(***************************************************************************)
FileNames == {"A.PO"}
FileLists == SeqsUpTo(FileNames, MaxFiles)

\* SymitarSyncResponse
\* an outcome whose lists have several names, not in alphabetical order
OrderedOutcome ==
  [deployed |-> <<"B.PO", "A.PO">>, deleted |-> <<"C.PO">>,
   installed |-> <<"B.PO">>, uninstalled |-> <<>>]
Outcomes ==
  [deployed : FileLists, deleted : FileLists,
   installed : FileLists, uninstalled : FileLists] \cup {OrderedOutcome}
EmptyOutcome ==
  [deployed |-> <<>>, deleted |-> <<>>, installed |-> <<>>,
   uninstalled |-> <<>>]

\* the object literal synchronizeToSymitar returns
ToSynchronizeResultSwapped(o) ==
  [filesDeployed |-> Len(o.deployed), filesDeleted |-> Len(o.deleted),
   filesInstalled |-> Len(o.installed),
   filesUninstalled |-> Len(o.uninstalled),
   deployedFiles |-> o.deleted, deletedFiles |-> o.deployed,
   installedFiles |-> o.installed, uninstalledFiles |-> o.uninstalled]
ToSynchronizeResult(o) ==
  [filesDeployed |-> Len(o.deployed), filesDeleted |-> Len(o.deleted),
   filesInstalled |-> Len(o.installed),
   filesUninstalled |-> Len(o.uninstalled),
   deployedFiles |-> o.deployed, deletedFiles |-> o.deleted,
   installedFiles |-> o.installed, uninstalledFiles |-> o.uninstalled]

\* calculateTotalChanges(directoryType, result)
calculateTotalChangesCountsAll(directoryType, r) ==
  Len(r.deployed) + Len(r.deleted) + Len(r.installed) + Len(r.uninstalled)
calculateTotalChanges(directoryType, r) ==
  LET baseChanges == Len(r.deployed) + Len(r.deleted) IN
  IF Member(directoryType).supportsInstall
  THEN baseChanges + Len(r.installed) + Len(r.uninstalled)
  ELSE baseChanges

\* a settled or pending promise
Pending == [status |-> "pending", error |-> NoError]
Resolved == [status |-> "resolved", error |-> NoError]
Rejected(err) == [status |-> "rejected", error |-> err]

(***************************************************************************)
(* Inputs: the configuration of one call and the process environment.      *)
(***************************************************************************)
\* keys over Chars, and two keys of other blank characters
ApiKeys == SeqsUpTo(Chars, MaxKeyLen) \cup {<<"\f">>, <<"U+00A0", "U+2028">>}
AppPorts == {Undefined, JsNaN, JsNumber(0), JsNumber(-1), JsNumber(42627)}

LocalPaths == {"./powerons/", "REPWRITERSPECS/"}

ConfigsOver(connectionTypes, ports) ==
  [apiKey : ApiKeys,
   directoryType : DirectoryTypes \cup {"invalidType"},
   connectionType : connectionTypes,
   syncMode : {"push", "sync"},
   symitarAppPort : ports,
   isDryRun : BOOLEAN,
   localDirectoryPath : {"./powerons/"},
   installPowerOnList : {<<"A.PO">>},
   validateIgnoreList : {<<>>},
   sshPort : {22},
   symNumber : {627}]

\* every port value over https; over ssh, whose path never reads the field,
\* the field is absent
Configs ==
  ConfigsOver({"https"}, AppPorts) \cup ConfigsOver({"ssh"}, {Undefined})

\* configurations that differ in what is handed to the transport, under one
\* API key
TransportConfigs ==
  [apiKey : {<<"k">>},
   directoryType :
     DirectoryTypes \cup {"toString", "constructor", "invalidType"},
   connectionType : {"https", "ssh"},
   syncMode : SyncModes \cup {"sync"},
   symitarAppPort : {Undefined, JsNumber(42627)},
   isDryRun : BOOLEAN,
   localDirectoryPath : LocalPaths,
   installPowerOnList : FileLists,
   validateIgnoreList : FileLists,
   sshPort : {22},
   symNumber : {627}]

DefaultConfig ==
  [apiKey |-> <<"k">>, directoryType |-> "powerOns",
   connectionType |-> "ssh", syncMode |-> "push",
   symitarAppPort |-> Undefined, isDryRun |-> FALSE,
   localDirectoryPath |-> "./powerons/", installPowerOnList |-> <<"A.PO">>,
   validateIgnoreList |-> <<>>, sshPort |-> 22, symNumber |-> 627]

\* SST_STAGE_PREFIX and IS_SANDBOX
Envs == [sstStagePrefix : {"", "dev-"}, isSandbox : BOOLEAN]
DefaultEnv == [sstStagePrefix |-> "", isSandbox |-> FALSE]

(***************************************************************************)
(* Calls of the directory-config functions on their own.                   *)
(***************************************************************************)
MaxListLen == 2

PureNames == {"A.PO", "B.PO"}
PureLists == SeqsUpTo(PureNames, MaxListLen)
PureOutcomes ==
  [deployed : PureLists, deleted : PureLists, installed : PureLists,
   uninstalled : PureLists]

\* strings offered as a directory type
TypeInputs == DirectoryTypes \cup InheritedKeys \cup {"invalid", "", "PowerOns"}

\* values offered as the optional inputPath
PathInputs ==
  {PathUndefined, <<"">>, <<"./custom/path/">>, <<"<undefined>">>}

NoCall ==
  [fn |-> "none", type |-> "", list |-> <<>>, path |-> PathUndefined,
   outcome |-> EmptyOutcome]

NoEntry ==
  [name |-> "", symitarDirectory |-> "", defaultPath |-> "",
   supportsInstall |-> FALSE]

NoRet ==
  [status |-> "none", bool |-> FALSE, num |-> 0, str |-> "", list |-> <<>>,
   cfg |-> NoEntry, error |-> NoError]

Calls ==
  {[NoCall EXCEPT !.fn = "isValidDirectoryType", !.type = t] :
     t \in TypeInputs}
  \cup {[NoCall EXCEPT !.fn = "getDirectoryConfig", !.type = t] :
          t \in TypeInputs}
  \cup {[NoCall EXCEPT !.fn = "getLocalDirectoryPath", !.type = t,
                       !.path = q] :
          t \in DirectoryTypes, q \in PathInputs}
  \cup {[NoCall EXCEPT !.fn = "getInstallList", !.type = t, !.list = l] :
          t \in DirectoryTypes, l \in PureLists}
  \cup {[NoCall EXCEPT !.fn = "calculateTotalChanges", !.type = t,
                       !.outcome = o] :
          t \in DirectoryTypes, o \in PureOutcomes}

\* getDirectoryConfig(type): the entry, or the error naming the valid types
getDirectoryConfig(type) ==
  IF ~isValidDirectoryType(type)
  THEN [NoRet EXCEPT !.status = "threw",
                     !.error = PlainError("Invalid directory type"),
                     !.list = ValidTypesListed]
  ELSE [NoRet EXCEPT !.status = "returned", !.cfg = Member(type)]

(***************************************************************************)
(* run(): the action inputs and how they are parsed.                       *)
(***************************************************************************)
Digits == {"0", "1", "2", "3", "4", "5", "6", "7", "8", "9"}
DigitVal(ch) ==
  CASE ch = "0" -> 0 [] ch = "1" -> 1 [] ch = "2" -> 2 [] ch = "3" -> 3
    [] ch = "4" -> 4 [] ch = "5" -> 5 [] ch = "6" -> 6 [] ch = "7" -> 7
    [] ch = "8" -> 8 [] ch = "9" -> 9

\* how many leading characters of s are digits
RECURSIVE DigitPrefixLen(_)
DigitPrefixLen(s) ==
  IF s # <<>> /\ Head(s) \in Digits THEN 1 + DigitPrefixLen(Tail(s)) ELSE 0

RECURSIVE DigitsValue(_)
DigitsValue(s) ==
  IF s = <<>> THEN 0
  ELSE 10 * DigitsValue(SubSeq(s, 1, Len(s) - 1)) + DigitVal(s[Len(s)])

\* parseInt(s, 10): leading white space, an optional sign, then the longest
\* run of digits; NaN when there is no digit
NaN == [nan |-> TRUE, val |-> 0]
parseInt(s) ==
  LET t == TrimStart(s)
      signed == t # <<>> /\ Head(t) \in {"-", "+"}
      body == IF signed THEN Tail(t) ELSE t
      n == DigitPrefixLen(body)
      v == DigitsValue(SubSeq(body, 1, n))
  IN IF n = 0 THEN NaN
     ELSE [nan |-> FALSE,
           val |-> IF signed /\ Head(t) = "-" THEN 0 - v ELSE v]

\* isNaN(n) || n < lo || n > hi
OutOfRangeUpperOnly(n, lo, hi) == n.nan \/ n.val > hi
OutOfRange(n, lo, hi) == n.nan \/ n.val < lo \/ n.val > hi

\* symitarHostname.match(/^[a-zA-Z0-9.-]+$/)
Letters ==
  {"a", "b", "c", "d", "e", "f", "g", "h", "i", "j", "k", "l", "m", "n", "o",
   "p", "q", "r", "s", "t", "u", "v", "w", "x", "y", "z", "A", "B", "C", "D",
   "E", "F", "G", "H", "I", "J", "K", "L", "M", "N", "O", "P", "Q", "R", "S",
   "T", "U", "V", "W", "X", "Y", "Z"}
HostnameChars == Letters \cup Digits \cup {".", "-"}
HostnameMatches(h) ==
  /\ Len(h) >= 1
  /\ \A i \in 1..Len(h) : h[i] \in HostnameChars

\* s.split(','): the pieces between commas, at least one
RECURSIVE SplitComma(_)
SplitComma(s) ==
  LET commas == {i \in 1..Len(s) : s[i] = ","} IN
  IF commas = {} THEN <<s>>
  ELSE LET i == CHOOSE k \in commas : \A m \in commas : k <= m
       IN <<SubSeq(s, 1, i - 1)>> \o SplitComma(SubSeq(s, i + 1, Len(s)))

\* .map((f) => f.trim())
MapTrim(l) == [i \in 1..Len(l) |-> Trim(l[i])]

\* .filter((f) => f.length > 0)
RECURSIVE FilterNonEmpty(_)
FilterNonEmpty(l) ==
  IF l = <<>> THEN <<>>
  ELSE (IF Len(Head(l)) > 0 THEN <<Head(l)>> ELSE <<>>)
         \o FilterNonEmpty(Tail(l))

\* input.split(',').map(trim).filter(non-empty)
ParseListUntrimmed(s) == FilterNonEmpty(SplitComma(s))
ParseList(s) == FilterNonEmpty(MapTrim(SplitComma(s)))

\* the dry-run input of the workflow step: <<>> when it was left out, <<s>>
\* when the string s was supplied
NotSupplied == <<>>

\* inputs.dry-run.default of the action's metadata
DefaultDryRun == "true"

\* core.getInput('dry-run'): the supplied value, else the declared default
GetInputDryRun(i) ==
  IF i.dryRun = NotSupplied THEN DefaultDryRun ELSE i.dryRun[1]

\* core.getInput('dry-run', ...) === 'true'
ParseDryRunNotFalse(s) == s # "false"
ParseDryRun(s) == s = "true"

\* what core.getInput returned for each input of one run over SSH
SshInputs ==
  [directoryType |-> "powerOns", localDirectoryPath |-> "",
   connectionType |-> "ssh", syncMode |-> "push", dryRun |-> <<"false">>,
   symitarHostname |-> <<"s", ".", "c">>, symitarAppPort |-> <<>>,
   sshPort |-> <<>>, symNumber |-> <<"6", "2", "7">>, apiKey |-> <<"k">>,
   installPowerOnList |-> <<"A">>, validateIgnoreList |-> <<>>]

\* the same over HTTPS
HttpsInputs ==
  [SshInputs EXCEPT !.connectionType = "https",
                    !.symitarAppPort = <<"4", "2", "6", "2", "7">>]

NoInputs ==
  [directoryType |-> "", localDirectoryPath |-> "", connectionType |-> "",
   syncMode |-> "", dryRun |-> NotSupplied, symitarHostname |-> <<>>,
   symitarAppPort |-> <<>>, sshPort |-> <<>>, symNumber |-> <<>>,
   apiKey |-> <<>>, installPowerOnList |-> <<>>, validateIgnoreList |-> <<>>]

\* other values of single inputs
Variations ==
  {<<"directoryType", "letterFiles">>, <<"directoryType", "invalid">>,
   <<"directoryType", "toString">>, <<"directoryType", "valueOf">>,
   <<"directoryType", "__proto__">>,
   <<"localDirectoryPath", "./custom/path/">>,
   <<"localDirectoryPath", "<undefined>">>,
   <<"connectionType", "ftp">>,
   <<"syncMode", "pull">>, <<"syncMode", "mirror">>,
   <<"syncMode", "sideways">>,
   <<"dryRun", <<"true">>>>, <<"dryRun", <<"">>>>, <<"dryRun", <<"TRUE">>>>,
   <<"dryRun", <<"<not supplied>">>>>, <<"dryRun", NotSupplied>>,
   <<"symitarHostname", <<>>>>, <<"symitarHostname", <<"s", " ", "c">>>>,
   <<"symitarAppPort", <<>>>>, <<"symitarAppPort", <<"0">>>>,
   <<"symitarAppPort", <<"1">>>>, <<"symitarAppPort", <<"x">>>>,
   <<"symitarAppPort", <<"6", "5", "5", "3", "6">>>>,
   <<"sshPort", <<"2", "2">>>>, <<"sshPort", <<"0">>>>,
   <<"sshPort", <<"x">>>>, <<"sshPort", <<"2", "2", "x">>>>,
   <<"sshPort", <<"6", "5", "5", "3", "5">>>>,
   <<"sshPort", <<"6", "5", "5", "3", "6">>>>,
   <<"symNumber", <<>>>>, <<"symNumber", <<"0">>>>,
   <<"symNumber", <<"-", "1">>>>, <<"symNumber", <<"9", "9", "9", "9">>>>,
   <<"symNumber", <<"1", "0", "0", "0", "0">>>>,
   <<"apiKey", <<>>>>, <<"apiKey", <<" ">>>>, <<"apiKey", <<"U+00A0">>>>,
   <<"apiKey", <<"k", "\n", "k">>>>, <<"apiKey", <<"k", "U+0000">>>>,
   <<"apiKey", <<"k", "U+0100", "k">>>>,
   <<"installPowerOnList", <<>>>>,
   <<"installPowerOnList", <<"A", ",", " ", "B", " ">>>>,
   <<"installPowerOnList", <<",", " ", ",">>>>,
   <<"installPowerOnList", <<"B", ",", ",", "A">>>>,
   <<"installPowerOnList", <<" ", " ">>>>,
   <<"installPowerOnList", <<"A", " ", "B", ",">>>>,
   <<"validateIgnoreList", <<" ", "A">>>>,
   <<"validateIgnoreList", <<",", "B", " ", ",", " ", "A">>>>,
   <<"validateIgnoreList", <<"A", ",", "A">>>>,
   <<"validateIgnoreList", <<"\f", "A", "U+00A0">>>>}

\* the first validation of run() that fails, as the error it throws
RunValidationError(i) ==
  LET sshPort == parseInt(IF i.sshPort = <<>> THEN <<"2", "2">>
                          ELSE i.sshPort)
      symitarAppPort == parseInt(i.symitarAppPort)
      symNumber == parseInt(i.symNumber)
  IN IF ~isValidDirectoryType(i.directoryType)
     THEN PlainError("Invalid directory type")
     ELSE IF i.connectionType # "https" /\ i.connectionType # "ssh"
     THEN PlainError("Invalid connection type")
     ELSE IF i.syncMode # "push" /\ i.syncMode # "pull"
             /\ i.syncMode # "mirror"
     THEN PlainError("Invalid sync mode")
     ELSE IF ~HostnameMatches(i.symitarHostname)
     THEN PlainError("Invalid hostname format")
     ELSE IF OutOfRange(sshPort, 1, 65535)
     THEN PlainError("Invalid SSH port")
     ELSE IF i.connectionType = "https" /\ i.symitarAppPort = <<>>
     THEN PlainError(
            "symitar-app-port is required when connection-type is https")
     ELSE IF i.connectionType = "https"
             /\ OutOfRange(symitarAppPort, 1, 65535)
     THEN PlainError("Invalid Symitar app port")
     ELSE IF OutOfRange(symNumber, 0, 9999)
     THEN PlainError("Invalid sym number")
     ELSE NoError

\* the object run() passes to synchronizeToSymitar
BuildConfig(i) ==
  [apiKey |-> i.apiKey,
   directoryType |-> i.directoryType,
   connectionType |-> i.connectionType,
   syncMode |-> i.syncMode,
   symitarAppPort |-> IF i.connectionType = "https"
                      THEN JsNumber(parseInt(i.symitarAppPort).val)
                      ELSE Undefined,
   isDryRun |-> ParseDryRun(GetInputDryRun(i)),
   localDirectoryPath |->
     getLocalDirectoryPath(i.directoryType,
                           IF i.localDirectoryPath = "" THEN PathUndefined
                           ELSE <<i.localDirectoryPath>>),
   installPowerOnList |-> ParseList(i.installPowerOnList),
   validateIgnoreList |-> ParseList(i.validateIgnoreList),
   sshPort |-> parseInt(IF i.sshPort = <<>> THEN <<"2", "2">>
                        ELSE i.sshPort).val,
   symNumber |-> parseInt(i.symNumber).val]

\* the catch block of run(): which branch handles the error, and what it
\* passes to core.setFailed
ReportFailure(err) ==
  IF err.kind = "AuthenticationError"
  THEN [category |-> "Authentication failed",
        prefix |-> "API key validation failed: ", message |-> err.message]
  ELSE IF err.kind = "ConnectionError"
  THEN [category |-> "Connection failed",
        prefix |-> "Failed to connect to license server: ",
        message |-> err.message]
  ELSE IF err.kind = "Error"
  THEN [category |-> "Unexpected error", prefix |-> "",
        message |-> err.message]
  ELSE [category |-> "Unknown error", prefix |-> "",
        message |-> err.message]

\* the secrets run() registers, by input name
MaskedInputs == <<"api-key", "symitar-user-password", "ssh-password">>

\* the four core.setOutput calls
SetOutputsWithoutUninstalled(r) ==
  <<<<"files-deployed", r.filesDeployed>>,
    <<"files-deleted", r.filesDeleted>>,
    <<"files-installed", r.filesInstalled>>>>
SetOutputs(r) ==
  <<<<"files-deployed", r.filesDeployed>>,
    <<"files-deleted", r.filesDeleted>>,
    <<"files-installed", r.filesInstalled>>,
    <<"files-uninstalled", r.filesUninstalled>>>>

\* one core.* or console.* call: the function called, the fixed text of its
\* argument, the inputs whose value the argument holds, and the number, name
\* or message of the result or of the error it interpolates, if any
LogEntry(fn, text, shows) ==
  [fn |-> fn, text |-> text, shows |-> shows, value |-> <<>>]

\* the same call with the value v interpolated into its argument
Holding(entry, v) == [entry EXCEPT !.value = <<v>>]

\* core.setSecret(apiKey), (symitarUserPassword), (sshPassword)
MaskSecrets ==
  [k \in 1..Len(MaskedInputs) |->
     LogEntry("setSecret", "", <<MaskedInputs[k]>>)]

\* the message of the TypeError fetch() rejects with when the X-API-Key
\* header it is given is not a legal header value: the message quotes the
\* value
InvalidHeaderValue == "Headers.append: is an invalid header value"

\* the message of the TypeError fetch() rejects with when the header value
\* holds a code unit above 255: it names the position and the code unit,
\* not the value
NotByteStringMessage == "Cannot convert argument to a ByteString"

\* the input whose value an error message quotes
QuotedInput(message) ==
  CASE message = "Invalid directory type" -> <<"directory-type">>
    [] message = InvalidHeaderValue -> <<"api-key">>
    [] message = "Invalid connection type" -> <<"connection-type">>
    [] message = "Invalid sync mode" -> <<"sync-mode">>
    [] message = "Invalid hostname format" -> <<"symitar-hostname">>
    [] message = "Invalid SSH port" -> <<"ssh-port">>
    [] message = "Invalid Symitar app port" -> <<"symitar-app-port">>
    [] message = "Invalid sym number" -> <<"sym-number">>
    [] OTHER -> <<>>

\* core.info(`API Key: ${apiKey ? 'provided' : 'missing'}`)
ApiKeyLine(apiKey) ==
  LogEntry("info",
           IF apiKey # <<>> THEN "API Key: provided" ELSE "API Key: missing",
           <<>>)

\* the core.info lines run() writes before it calls synchronizeToSymitar;
\* c is the configuration built from the inputs i
StartupLog(i, c) ==
  <<LogEntry("info", "Starting Symitar synchronization", <<>>),
    LogEntry("info", "Directory Type: ", <<"directory-type">>),
    LogEntry("info", "Connection Type: ", <<"connection-type">>),
    LogEntry("info", "Sync Mode: ", <<"sync-mode">>),
    LogEntry("info", "Hostname: ", <<"symitar-hostname">>),
    IF c.connectionType = "https"
    THEN LogEntry("info", "Symitar App Port: ", <<"symitar-app-port">>)
    ELSE LogEntry("info", "SSH Port: ", <<"ssh-port">>),
    LogEntry("info", "Sym: ", <<"sym-number">>),
    LogEntry("info", "Local Directory: ", <<"local-directory-path">>),
    LogEntry("info", "Dry Run: ", <<"dry-run">>),
    LogEntry("info", "Debug: ", <<"debug">>),
    ApiKeyLine(i.apiKey)>>
  \o (IF Member(c.directoryType).supportsInstall
         /\ c.installPowerOnList # <<>>
      THEN <<LogEntry("info", "Install PowerOn List: ",
                      <<"install-poweron-list">>)>>
      ELSE <<>>)
  \o (IF c.validateIgnoreList # <<>>
      THEN <<LogEntry("info", "Validate Ignore List: ",
                      <<"validate-ignore-list">>)>>
      ELSE <<>>)

\* the catch block of run(): its core.error lines, core.debug for an error
\* that has a stack, then core.setFailed; a stack trace begins with the
\* message of its error
FailureLog(err) ==
  LET quoted == QuotedInput(err.message)
      stack == IF err.stack
               THEN <<LogEntry("debug", "Stack trace: ", quoted)>>
               ELSE <<>>
  IN IF err.kind = "AuthenticationError"
     THEN <<Holding(LogEntry("error", "Authentication failed: ", quoted),
                    err.message),
            LogEntry("error",
                     IF err.apiKey # NoKey THEN "API Key: ***"
                     ELSE "API Key: not provided", <<>>),
            Holding(LogEntry("error", "Host: ", <<>>), err.host)>>
          \o stack
          \o <<Holding(LogEntry("setFailed", "API key validation failed: ",
                                quoted), err.message)>>
     ELSE IF err.kind = "ConnectionError"
     THEN <<Holding(LogEntry("error", "Connection failed: ", <<>>),
                    err.message),
            Holding(LogEntry("error", "Host: ", <<>>),
                    <<err.host, err.port>>)>>
          \o (IF err.originalError # NoOriginal
              THEN LET original == err.originalError[1] IN
                   <<Holding(LogEntry("error", "Original error: ",
                                      QuotedInput(original.message)),
                             original.message)>>
                   \o (IF original.stack
                       THEN <<LogEntry("debug", "Original stack trace: ",
                                       QuotedInput(original.message))>>
                       ELSE <<>>)
              ELSE <<>>)
          \o stack
          \o <<Holding(LogEntry("setFailed",
                                "Failed to connect to license server: ",
                                <<>>), err.message)>>
     ELSE IF err.kind = "Error"
     THEN <<Holding(LogEntry("error", "Unexpected error: ", quoted),
                    err.message)>>
          \o stack
          \o <<Holding(LogEntry("setFailed", "", quoted), err.message)>>
     ELSE <<Holding(LogEntry("error", "Unknown error: ", quoted),
                    err.message),
            Holding(LogEntry("setFailed", "", quoted), err.message)>>

\* which branch of the summary run() logs
Summary(directoryType, r) ==
  IF calculateTotalChanges(directoryType,
       [deployed |-> r.deployedFiles, deleted |-> r.deletedFiles,
        installed |-> r.installedFiles,
        uninstalled |-> r.uninstalledFiles]) = 0
  THEN "No changes to synchronize"
  ELSE "Files Deployed"

\* core.info of a row of '='
Separator == LogEntry("info", "========================================", <<>>)

\* one core.info line per file of a list of the result
FileLines(mark, files) ==
  [k \in 1..Len(files) |-> Holding(LogEntry("info", mark, <<>>), files[k])]

\* the core.info lines run() writes after a successful call
SummaryLog(directoryType, isDryRun, r) ==
  <<LogEntry("info", "", <<>>),
    Separator,
    LogEntry("info",
             IF isDryRun THEN "Synchronization Summary - (DRY RUN)"
             ELSE "Synchronization Summary - ",
             <<"directory-type", "dry-run">>),
    Separator>>
  \o (IF Summary(directoryType, r) = "No changes to synchronize"
      THEN <<LogEntry("info", "No changes to synchronize", <<>>)>>
      ELSE <<Holding(LogEntry("info", "Files Deployed: ", <<>>),
                     r.filesDeployed)>>
           \o FileLines("  + ", r.deployedFiles)
           \o <<Holding(LogEntry("info", "Files Deleted: ", <<>>),
                        r.filesDeleted)>>
           \o FileLines("  - ", r.deletedFiles)
           \o (IF Member(directoryType).supportsInstall
               THEN <<Holding(LogEntry("info", "Files Installed: ", <<>>),
                              r.filesInstalled)>>
                    \o FileLines("  U+2713 ", r.installedFiles)
                    \o <<Holding(LogEntry("info", "Files Uninstalled: ",
                                          <<>>), r.filesUninstalled)>>
                    \o FileLines("  U+2717 ", r.uninstalledFiles)
               ELSE <<>>))
  \o <<Separator,
       LogEntry("info", "Completed in ", <<>>),
       LogEntry("info",
                IF isDryRun THEN "This was a dry run - no changes were made"
                ELSE "Synchronization completed successfully!", <<>>)>>

RunInputs ==
  {SshInputs, HttpsInputs}
  \cup {[b EXCEPT ![v[1]] = v[2]] :
          b \in {SshInputs, HttpsInputs}, v \in Variations}

\* client.synchronizeFiles(...) of SymitarHTTPs: the arguments in call order
HttpsCallArgsDirAndModeSwapped(c, symitarDirectory, syncMode, installList) ==
  <<c.localDirectoryPath, installList, c.isDryRun, syncMode,
    symitarDirectory, c.validateIgnoreList>>
HttpsCallArgs(c, symitarDirectory, syncMode, installList) ==
  <<c.localDirectoryPath, installList, c.isDryRun, symitarDirectory,
    syncMode, c.validateIgnoreList>>

\* client.synchronizeFiles(...) of SymitarSSH: symitarConfig comes first
SshCallArgs(c, symitarDirectory, syncMode, installList) ==
  <<"symitarConfig", c.localDirectoryPath, installList, c.isDryRun,
    symitarDirectory, syncMode, c.validateIgnoreList>>

\* the lines synchronizeToSymitar and validateApiKey write before the first
\* request: core.info, console.info, and console.error for a blank key
StartLog(blank) ==
  <<LogEntry("info", "Validating API key...", <<>>),
    LogEntry("console.info", "Validating API key", <<>>)>>
  \o (IF blank
      THEN <<LogEntry("console.error", "No API key provided", <<>>)>>
      ELSE <<>>)

\* console.error of a response that is not ok
StatusLog(status) ==
  <<Holding(LogEntry("console.error",
                     "Failed to validate API key. Status: ", <<>>), status)>>

\* the lines of the catch block of attempt k: the failure with the message
\* of the error caught, then the retry notice when the block does not throw
CatchLog(err, k, throws) ==
  <<Holding(LogEntry("console.error", "Validation attempt failed: ",
                     QuotedInput(err.message)), k)>>
  \o (IF throws THEN <<>>
      ELSE <<Holding(LogEntry("console.info",
                              "Retrying API key validation in ", <<>>),
                     BackoffDelay(k))>>)

\* console.info of a validated key
SuccessLog ==
  <<LogEntry("console.info", "API key validation successful", <<>>)>>

\* core.info in the finally block of a transport path
ClosingLog == <<LogEntry("info", "Closing connection...", <<>>)>>

\* core.info before client.synchronizeFiles
StartingLog(c) ==
  <<LogEntry("info",
             IF c.isDryRun THEN "Starting synchronization (DRY RUN)..."
             ELSE "Starting synchronization...", <<"dry-run">>)>>

\* core.info after client.isReady resolved, then the line before the call
ConnectedLog(c) ==
  <<LogEntry("info", "Connected successfully", <<>>)>> \o StartingLog(c)

\* the core.info lines synchronizeToSymitar writes once the key is valid,
\* up to the first await of the transport path; reached is FALSE when
\* validateApiKey, getDirectoryConfig or getSyncMode threw
TransportLog(c, reached, missingPort) ==
  IF ~reached THEN <<>>
  ELSE <<LogEntry("info", "Using connection", <<"connection-type">>),
         LogEntry("info",
                  IF c.isDryRun
                  THEN "Beginning synchronization of for Sym (Dry Run)"
                  ELSE "Beginning synchronization of for Sym",
                  <<"sync-mode", "directory-type", "sym-number",
                    "dry-run">>)>>
       \o (IF c.connectionType = "https"
           THEN IF missingPort THEN <<>>
                ELSE <<LogEntry("info", "Connecting to https://...",
                                <<"symitar-hostname", "symitar-app-port">>)>>
                     \o StartingLog(c)
           ELSE <<LogEntry("info", "Connecting to via SSH...",
                           <<"symitar-hostname", "ssh-port">>)>>)

\* !config.symitarAppPort  (undefined, NaN and 0 are falsy)
MissingAppPortNever(port) == FALSE
MissingAppPort(port) == port.kind # "number" \/ port.val = 0

\* const result = await client.synchronizeFiles(...): the function is
\* suspended inside the try block, so the finally block has not run
AwaitSynchronizeFilesNotAwaited(n) == n + 1
AwaitSynchronizeFiles(n) == n

\* the finally block of a transport path: await client.end()
CallEndSkipped(n) == n
CallEnd(n) == n + 1

VARIABLES
  config,          \* the SynchronizeConfig of this call
  env,             \* process-wide stage prefix and sandbox flag
  pc,              \* where the call is suspended
  attempt,         \* loop variable of validateApiKey
  fetchCalls,      \* fetch() calls issued so far
  fetchHosts,      \* host of the url of each fetch() call
  timersStarted,   \* setTimeout calls for per-request timeouts so far
  timers,          \* attempts whose timeout timer is pending
  aborted,         \* the current attempt's controller has been aborted
  waits,           \* backoff delays waited so far, in order
  history,         \* classification of each completed attempt, in order
  lastStatus,      \* HTTP status the current attempt received, 0 if none
  lastData,        \* payload the current attempt's response.json() gave
  lastFailure,     \* <<e>>, e the error the current attempt's catch
                   \* caught, <<>> before it caught one
  validation,      \* settlement of validateApiKey
  sshClients,      \* SymitarSSH clients constructed
  httpsClients,    \* SymitarHTTPs clients constructed
  ready,           \* settlement of client.isReady (SSH)
  syncCalls,       \* synchronizeFiles calls issued
  syncArgs,        \* arguments of the synchronizeFiles call, in call order
  syncSettled,     \* settlement of synchronizeFiles
  syncOutcome,     \* what synchronizeFiles resolved to
  endCalls,        \* client.end() calls issued
  endSettled,      \* settlement of client.end()
  result,          \* settlement of synchronizeToSymitar
  returned,        \* the SynchronizeResult it resolved to
  call,            \* a call of a directory-config function: name, arguments
  ret,             \* what that call returned or threw
  inputs,          \* the action inputs run() reads with core.getInput
  runPc,           \* where run() is suspended
  secrets,         \* values registered with core.setSecret
  invocations,     \* calls of synchronizeToSymitar made by run()
  outputs,         \* core.setOutput calls, in order
  failures,        \* core.setFailed calls, in order
  warnings,        \* core.warning calls, in order
  log,             \* the core.* and console.* calls that mask or emit, in
                   \* order
  summary          \* which summary branch run() logged

vars ==
  <<config, env, pc, attempt, fetchCalls, fetchHosts, timersStarted, timers,
    aborted, waits, history, lastStatus, lastData, lastFailure, validation,
    sshClients, httpsClients, ready, syncCalls, syncArgs, syncSettled,
    syncOutcome, endCalls, endSettled, result, returned, call, ret, inputs,
    runPc, secrets, invocations, outputs, failures, warnings, log, summary>>

licenseVars ==
  <<attempt, fetchCalls, fetchHosts, timersStarted, timers, aborted, waits,
    history, lastStatus, lastData, lastFailure, validation>>

transportVars ==
  <<sshClients, httpsClients, ready, syncCalls, syncArgs, syncSettled,
    syncOutcome, endCalls, endSettled>>

\* state of a directory-config call and of run(), the log apart
pureVars == <<call, ret>>
runVars ==
  <<inputs, runPc, secrets, invocations, outputs, failures, warnings,
    summary>>

\* state of one call of synchronizeToSymitar
orchestratorVars ==
  <<config, env, pc, licenseVars, transportVars, result, returned>>

\* nothing has happened yet in a call of synchronizeToSymitar
OrchestratorFresh ==
  /\ attempt = 0
  /\ fetchCalls = 0
  /\ fetchHosts = <<>>
  /\ timersStarted = 0
  /\ timers = {}
  /\ aborted = FALSE
  /\ waits = <<>>
  /\ history = <<>>
  /\ lastStatus = 0
  /\ lastData = NoPayload
  /\ lastFailure = <<>>
  /\ validation = Pending
  /\ sshClients = 0
  /\ httpsClients = 0
  /\ ready = Pending
  /\ syncCalls = 0
  /\ syncArgs = <<>>
  /\ syncSettled = Pending
  /\ syncOutcome = EmptyOutcome
  /\ endCalls = 0
  /\ endSettled = Pending
  /\ result = Pending
  /\ returned = ToSynchronizeResult(EmptyOutcome)

\* no directory-config function is being called on its own
PureIdle ==
  /\ call = NoCall
  /\ ret = NoRet

\* run() is not executing
RunIdle ==
  /\ inputs = NoInputs
  /\ runPc = "idle"
  /\ secrets = <<>>
  /\ invocations = 0
  /\ outputs = <<>>
  /\ failures = <<>>
  /\ warnings = <<>>
  /\ log = <<>>
  /\ summary = ""

\* one call of synchronizeToSymitar(config)
Init ==
  /\ config \in Configs
  /\ env \in Envs
  /\ pc = "start"
  /\ OrchestratorFresh
  /\ PureIdle
  /\ RunIdle

(***************************************************************************)
(* validateApiKey                                                          *)
(***************************************************************************)
\* top of the loop body: new controller, setTimeout, fetch(url, ...)
IssueAttempt(k, pendingTimers) ==
  /\ attempt' = k
  /\ aborted' = FALSE
  /\ timers' = pendingTimers \cup {k}
  /\ timersStarted' = timersStarted + 1
  /\ fetchCalls' = fetchCalls + 1
  /\ fetchHosts' = Append(fetchHosts, UrlHost(env))
  /\ lastStatus' = 0
  /\ lastData' = NoPayload
  /\ lastFailure' = <<>>
  /\ pc' = "fetching"

\* synchronizeToSymitar is called; validateApiKey runs up to its first await
Start ==
  /\ pc = "start"
  /\ IF IsBlankKey(config.apiKey)
     THEN /\ validation' =
               Rejected(AuthenticationError(
                 "PowerOn Pipelines API Key is missing", config.apiKey,
                 NoHost))
          /\ pc' = "validated"
          /\ UNCHANGED <<attempt, aborted, timers, timersStarted, fetchCalls,
                         fetchHosts, lastStatus, lastData, lastFailure>>
     ELSE /\ IssueAttempt(1, timers)
          /\ UNCHANGED validation
  /\ log' = log \o StartLog(IsBlankKey(config.apiKey))
  /\ UNCHANGED <<config, env, pureVars, runVars,
                 waits, history, transportVars, result,
                 returned>>

\* a per-request timer fires: () => controller.abort()
TimeoutFires ==
  /\ pc \in {"fetching", "json", "backoff"}
  /\ \E t \in timers :
       /\ timers' = timers \ {t}
       /\ aborted' = IF t = attempt THEN TRUE ELSE aborted
  /\ UNCHANGED <<config, env, pureVars, runVars, log,
                 pc, attempt, fetchCalls, fetchHosts,
                 timersStarted, waits, history, lastStatus, lastData,
                 lastFailure, validation, transportVars, result, returned>>

\* the messages of the errors a fetch() that was not aborted can reject
\* with: a network failure, an error without a message, and the TypeError
\* for a key that is not a header value; the conversion to bytes comes
\* before the check of the value
FetchFailures(apiKey) ==
  {"Network error", ""}
  \cup (IF NotByteString(apiKey) THEN {NotByteStringMessage}
        ELSE IF IllegalHeaderValue(apiKey) THEN {InvalidHeaderValue}
        ELSE {})

\* the errors themselves: each with a stack, and one whose stack is missing
FetchErrors(apiKey) ==
  {PlainError(message) : message \in FetchFailures(apiKey)}
  \cup {WithoutStack(PlainError("Network error"))}

\* the errors client.end() can reject with
EndErrors ==
  {PlainError("End failed"), WithoutStack(PlainError("End failed"))}

\* the catch block, then the finally block when the catch block throws; pre
\* is what the try block logged before it threw
Catch(pre, err) ==
  /\ log' = log \o pre
               \o CatchLog(err, attempt, ThrowsImmediately(err, attempt))
  /\ history' =
       Append(history,
              IF err.kind = "AuthenticationError"
              THEN "authentication" ELSE "retryable")
  /\ lastFailure' = Original(err)
  /\ IF ThrowsImmediately(err, attempt)
     THEN /\ validation' = Rejected(ThrownError(env, err))
          /\ timers' = ClearTimeout(timers, attempt)
          /\ pc' = "validated"
          /\ UNCHANGED waits
     ELSE /\ waits' = Append(waits, BackoffDelay(attempt))
          /\ pc' = "backoff"
          /\ UNCHANGED <<validation, timers>>

\* the fetch promise settles
FetchSettles ==
  /\ pc = "fetching"
  /\ \/ /\ aborted
        /\ Catch(<<>>, PlainError("This operation was aborted"))
        /\ UNCHANGED lastStatus
     \/ /\ ~aborted
        /\ \E err \in FetchErrors(config.apiKey) : Catch(<<>>, err)
        /\ UNCHANGED lastStatus
     \/ /\ ~aborted
        /\ \E status \in HttpStatuses :
             /\ lastStatus' = status
             /\ IF ~ResponseOk(status)
                THEN Catch(StatusLog(status),
                           StatusError(config.apiKey, status))
                ELSE /\ pc' = "json"
                     /\ UNCHANGED <<history, lastFailure, validation, timers,
                                    waits, log>>
  /\ UNCHANGED <<config, env, pureVars, runVars,
                 attempt, aborted, fetchCalls, fetchHosts,
                 timersStarted, lastData, transportVars, result, returned>>

\* response.json() settles; the rest of the try block runs
JsonSettles ==
  /\ pc = "json"
  /\ \/ /\ aborted
        /\ Catch(<<>>, PlainError("This operation was aborted"))
        /\ UNCHANGED lastData
     \/ /\ ~aborted
        /\ Catch(<<>>, PlainError("Unexpected end of JSON input"))
        /\ UNCHANGED lastData
     \/ /\ ~aborted
        /\ \E data \in Payloads :
             /\ lastData' = data
             /\ LET thrown == ClassifyPayload(config.apiKey, data) IN
                IF thrown # NoError
                THEN Catch(<<>>, thrown)
                ELSE /\ log' = log \o SuccessLog
                     /\ history' = Append(history, "success")
                     /\ validation' = Resolved
                     /\ timers' = ClearTimeout(timers, attempt)
                     /\ pc' = "validated"
                     /\ UNCHANGED <<waits, lastFailure>>
  /\ UNCHANGED <<config, env, pureVars, runVars,
                 attempt, aborted, fetchCalls, fetchHosts,
                 timersStarted, lastStatus, transportVars, result, returned>>

\* the backoff timer fires: finally block, attempt++, next iteration
BackoffElapsed ==
  /\ pc = "backoff"
  /\ IF attempt + 1 <= MAX_API_RETRIES
     THEN /\ IssueAttempt(attempt + 1, ClearTimeout(timers, attempt))
          /\ UNCHANGED validation
     ELSE /\ timers' = ClearTimeout(timers, attempt)
          /\ validation' = Resolved
          /\ pc' = "validated"
          /\ UNCHANGED <<attempt, aborted, timersStarted, fetchCalls,
                         fetchHosts, lastStatus, lastData, lastFailure>>
  /\ UNCHANGED <<config, env, pureVars, runVars, log,
                 waits, history, transportVars, result,
                 returned>>

(***************************************************************************)
(* synchronizeToSymitar, synchronizeViaHTTPs, synchronizeViaSSH            *)
(***************************************************************************)
\* await validateApiKey(config.apiKey): a rejection leaves the function
ValidationFailedIgnored(v) == FALSE
ValidationFailed(v) == v.status = "rejected"

Throw(err) ==
  /\ result' = Rejected(err)
  /\ pc' = "done"
  /\ UNCHANGED <<transportVars, returned>>

\* synchronizeToSymitar resumes after validateApiKey and runs to the first
\* await of the transport path
Dispatch ==
  /\ pc = "validated"
  /\ IF ValidationFailed(validation)
     THEN Throw(validation.error)
     ELSE IF ~isValidDirectoryType(config.directoryType)
     THEN Throw(PlainError("Invalid directory type"))
     ELSE IF ~isValidSyncMode(config.syncMode)
     THEN Throw(PlainError("Invalid sync mode"))
     ELSE IF config.connectionType = "https"
     THEN IF MissingAppPort(config.symitarAppPort)
          THEN Throw(PlainError(
                 "symitar-app-port is required when using HTTPS connection"))
          ELSE /\ httpsClients' = httpsClients + 1
               /\ syncCalls' = syncCalls + 1
               /\ syncArgs' =
                    HttpsCallArgs(
                      config,
                      Member(config.directoryType).symitarDirectory,
                      getSyncMode(config.syncMode),
                      getInstallList(config.directoryType,
                                     config.installPowerOnList))
               /\ endCalls' = AwaitSynchronizeFiles(endCalls)
               /\ pc' = "syncing"
               /\ UNCHANGED <<sshClients, ready, syncSettled, syncOutcome,
                              endSettled, result, returned>>
     ELSE /\ sshClients' = sshClients + 1
          /\ pc' = "awaitReady"
          /\ UNCHANGED <<httpsClients, ready, syncCalls, syncArgs,
                         syncSettled, syncOutcome, endCalls, endSettled,
                         result, returned>>
  /\ log' = log \o TransportLog(
                      config,
                      /\ ~ValidationFailed(validation)
                      /\ isValidDirectoryType(config.directoryType)
                      /\ isValidSyncMode(config.syncMode),
                      MissingAppPort(config.symitarAppPort))
  /\ UNCHANGED <<config, env, pureVars, runVars, licenseVars>>

\* await client.isReady settles (SSH)
ReadySettles ==
  /\ pc = "awaitReady"
  /\ \/ /\ ready' = Resolved
        /\ syncCalls' = syncCalls + 1
        /\ syncArgs' =
             SshCallArgs(
               config,
               Member(config.directoryType).symitarDirectory,
               getSyncMode(config.syncMode),
               getInstallList(config.directoryType,
                              config.installPowerOnList))
        /\ endCalls' = AwaitSynchronizeFiles(endCalls)
        /\ log' = log \o ConnectedLog(config)
        /\ pc' = "syncing"
     \/ /\ ready' = Rejected(PlainError("SSH connection failed"))
        /\ log' = log \o ClosingLog
        /\ endCalls' = CallEnd(endCalls)
        /\ pc' = "ending"
        /\ UNCHANGED <<syncCalls, syncArgs>>
  /\ UNCHANGED <<config, env, pureVars, runVars, licenseVars, sshClients,
                 httpsClients, syncSettled, syncOutcome, endSettled, result,
                 returned>>

\* await client.synchronizeFiles(...) settles; the finally block begins
SyncSettles ==
  /\ pc = "syncing"
  /\ \/ \E o \in Outcomes :
          /\ syncSettled' = Resolved
          /\ syncOutcome' = o
     \/ /\ syncSettled' = Rejected(PlainError("Sync failed"))
        /\ UNCHANGED syncOutcome
  /\ log' = log \o ClosingLog
  /\ endCalls' = CallEnd(endCalls)
  /\ pc' = "ending"
  /\ UNCHANGED <<config, env, pureVars, runVars, licenseVars, sshClients,
                 httpsClients, ready, syncCalls, syncArgs, endSettled,
                 result, returned>>

\* how the try block ended: the error it threw, or NoError
TryError ==
  IF ready.status = "rejected" THEN ready.error
  ELSE IF syncSettled.status = "rejected" THEN syncSettled.error
  ELSE NoError

\* await client.end() settles; the transport path and synchronizeToSymitar
\* complete
EndSettles ==
  /\ pc = "ending"
  /\ \/ /\ endSettled' = Resolved
        /\ IF TryError = NoError
           THEN /\ result' = Resolved
                /\ returned' = ToSynchronizeResult(syncOutcome)
           ELSE /\ result' = Rejected(TryError)
                /\ UNCHANGED returned
     \/ /\ \E err \in EndErrors :
             /\ endSettled' = Rejected(err)
             /\ result' = Rejected(err)
        /\ UNCHANGED returned
  /\ pc' = "done"
  /\ UNCHANGED <<config, env, pureVars, runVars, log, licenseVars,
                 sshClients, httpsClients, ready, syncCalls, syncArgs,
                 syncSettled, syncOutcome, endCalls>>

Next ==
  \/ Start
  \/ TimeoutFires
  \/ FetchSettles
  \/ JsonSettles
  \/ BackoffElapsed
  \/ Dispatch
  \/ ReadySettles
  \/ SyncSettles
  \/ EndSettles

Spec == Init /\ [][Next]_vars

\* one call of synchronizeToSymitar under one API key, over configurations
\* that differ in what reaches the transport
InitTransport ==
  /\ config \in TransportConfigs
  /\ env = DefaultEnv
  /\ pc = "start"
  /\ OrchestratorFresh
  /\ PureIdle
  /\ RunIdle

SpecTransport == InitTransport /\ [][Next]_vars

\* one call of synchronizeToSymitar over every key and environment, the rest
\* of the configuration fixed
InitLive ==
  /\ config \in {[DefaultConfig EXCEPT !.apiKey = k] : k \in ApiKeys}
  /\ env \in Envs
  /\ pc = "start"
  /\ OrchestratorFresh
  /\ PureIdle
  /\ RunIdle

\* the call runs once made; every request completes or is aborted by its
\* timeout, so fetch() and response.json() settle; every backoff timer fires
SpecLive ==
  /\ InitLive
  /\ [][Next]_vars
  /\ WF_vars(Start)
  /\ WF_vars(FetchSettles)
  /\ WF_vars(JsonSettles)
  /\ WF_vars(BackoffElapsed)

(***************************************************************************)
(* run()                                                                   *)
(***************************************************************************)
InitRun ==
  /\ config = DefaultConfig
  /\ env = DefaultEnv
  /\ pc = "idle"
  /\ OrchestratorFresh
  /\ PureIdle
  /\ inputs \in RunInputs
  /\ runPc = "start"
  /\ secrets = <<>>
  /\ invocations = 0
  /\ outputs = <<>>
  /\ failures = <<>>
  /\ warnings = <<>>
  /\ log = <<>>
  /\ summary = ""

\* run() from its first line to `await synchronizeToSymitar(...)`, or to the
\* end of the catch block when a validation throws
RunStart ==
  /\ runPc = "start"
  /\ secrets' = MaskedInputs
  /\ IF RunValidationError(inputs) # NoError
     THEN /\ failures' = <<ReportFailure(RunValidationError(inputs))>>
          /\ log' = MaskSecrets \o FailureLog(RunValidationError(inputs))
          /\ runPc' = "done"
          /\ UNCHANGED <<config, pc, invocations>>
     ELSE /\ config' = BuildConfig(inputs)
          /\ pc' = "start"
          /\ invocations' = invocations + 1
          /\ log' = MaskSecrets \o StartupLog(inputs, BuildConfig(inputs))
          /\ runPc' = "awaitSync"
          /\ UNCHANGED failures
  /\ UNCHANGED <<env, licenseVars, transportVars, result, returned, pureVars,
                 inputs, outputs, warnings, summary>>

\* run() resumes when synchronizeToSymitar has settled: outputs and summary,
\* or the catch block
RunResume ==
  /\ runPc = "awaitSync"
  /\ pc = "done"
  /\ IF result.status = "resolved"
     THEN /\ outputs' = SetOutputs(returned)
          /\ summary' = Summary(config.directoryType, returned)
          /\ log' = log \o SummaryLog(config.directoryType,
                                          config.isDryRun, returned)
          /\ UNCHANGED failures
     ELSE /\ failures' = <<ReportFailure(result.error)>>
          /\ log' = log \o FailureLog(result.error)
          /\ UNCHANGED <<outputs, summary>>
  /\ runPc' = "done"
  /\ UNCHANGED <<orchestratorVars, pureVars, inputs, secrets, invocations,
                 warnings>>

NextRun ==
  \/ RunStart
  \/ Start
  \/ TimeoutFires
  \/ FetchSettles
  \/ JsonSettles
  \/ BackoffElapsed
  \/ Dispatch
  \/ ReadySettles
  \/ SyncSettles
  \/ EndSettles
  \/ RunResume

SpecRun == InitRun /\ [][NextRun]_vars

(***************************************************************************)
(* The directory-config functions, each called once on its own.            *)
(***************************************************************************)
InitPure ==
  /\ config = DefaultConfig
  /\ env = DefaultEnv
  /\ pc = "idle"
  /\ OrchestratorFresh
  /\ call \in Calls
  /\ ret = NoRet
  /\ RunIdle

Return(r) ==
  /\ ret.status = "none"
  /\ ret' = r
  /\ UNCHANGED <<orchestratorVars, call, runVars, log>>

CallIsValidDirectoryType ==
  /\ call.fn = "isValidDirectoryType"
  /\ Return([NoRet EXCEPT !.status = "returned",
                          !.bool = isValidDirectoryType(call.type)])

CallGetDirectoryConfig ==
  /\ call.fn = "getDirectoryConfig"
  /\ Return(getDirectoryConfig(call.type))

CallGetLocalDirectoryPath ==
  /\ call.fn = "getLocalDirectoryPath"
  /\ Return([NoRet EXCEPT !.status = "returned",
                          !.str = getLocalDirectoryPath(call.type,
                                                        call.path)])

CallGetInstallList ==
  /\ call.fn = "getInstallList"
  /\ Return([NoRet EXCEPT !.status = "returned",
                          !.list = getInstallList(call.type, call.list)])

CallCalculateTotalChanges ==
  /\ call.fn = "calculateTotalChanges"
  /\ Return([NoRet EXCEPT !.status = "returned",
                          !.num = calculateTotalChanges(call.type,
                                                        call.outcome)])

NextPure ==
  \/ CallIsValidDirectoryType
  \/ CallGetDirectoryConfig
  \/ CallGetLocalDirectoryPath
  \/ CallGetInstallList
  \/ CallCalculateTotalChanges

SpecPure == InitPure /\ [][NextPure]_vars

(***************************************************************************)
(* Properties.                                                             *)
(***************************************************************************)
ClientsConstructed == sshClients + httpsClients
AllWhiteSpace(key) == \A i \in 1..Len(key) : key[i] \in WhiteSpace
ValidTransportConfig ==
  /\ config.directoryType \in DirectoryTypes
  /\ config.syncMode \in SyncModes
  /\ (config.connectionType = "https"
        => ~MissingAppPort(config.symitarAppPort))

\* C1: for both connection types, once a transport client has been
\* constructed its end() is invoked exactly once before synchronizeToSymitar
\* returns or throws, whether the synchronize call succeeded or threw; end()
\* is never invoked twice and never without a client.
C1_EndExactlyOnce ==
  /\ endCalls <= ClientsConstructed
  /\ ClientsConstructed <= 1
  /\ (pc = "done" /\ ClientsConstructed = 1) => endCalls = 1

\* a successful SSH dry run with a non-empty outcome has closed its client once
C1_Witness ==
  /\ pc = "done"
  /\ config.connectionType = "ssh"
  /\ config.isDryRun
  /\ result.status = "resolved"
  /\ returned.filesDeployed > 0
  /\ sshClients = 1
  /\ endCalls = 1

\* C2: if end() fails during teardown, synchronizeToSymitar still returns the
\* synchronize call's outcome when that call succeeded and still throws the
\* synchronize call's own error when it failed.
C2_TeardownFailureDoesNotMask ==
  (pc = "done" /\ endSettled.status = "rejected") =>
    IF syncSettled.status = "resolved"
    THEN result.status = "resolved"
           /\ returned = ToSynchronizeResult(syncOutcome)
    ELSE result = Rejected(TryError)

\* C3: license validation completes before any other step; when
\* validateApiKey fails the failure is propagated unchanged and no transport
\* client is constructed, no synchronize call is issued and no teardown runs.
C3_LicenseFirst ==
  /\ (ClientsConstructed > 0 \/ syncCalls > 0 \/ endCalls > 0)
       => validation.status = "resolved"
  /\ validation.status = "rejected"
       => /\ ClientsConstructed = 0 /\ syncCalls = 0 /\ endCalls = 0
          /\ pc = "done" => result = Rejected(validation.error)

\* the licence server was unreachable for a configuration that could
\* otherwise have connected
C3_Witness ==
  /\ pc = "done"
  /\ ValidTransportConfig
  /\ validation.status = "rejected"
  /\ validation.error.kind = "ConnectionError"
  /\ result = Rejected(validation.error)

\* C4: connectionType = https without symitarAppPort fails with the
\* configuration error before any transport client of either flavour is
\* constructed; it never falls back to SSH.
C4_HttpsNeedsPort ==
  (config.connectionType = "https" /\ config.symitarAppPort = Undefined) =>
    /\ sshClients = 0 /\ httpsClients = 0 /\ syncCalls = 0
    /\ pc = "done" => result.status = "rejected"
    /\ (pc = "done" /\ validation.status = "resolved"
          /\ config.directoryType \in DirectoryTypes
          /\ config.syncMode \in SyncModes)
         => result.error =
              PlainError(
                "symitar-app-port is required when using HTTPS connection")

\* a licensed https call without a port has failed on the port check
C4_Witness ==
  /\ pc = "done"
  /\ config.connectionType = "https"
  /\ config.symitarAppPort = Undefined
  /\ validation.status = "resolved"
  /\ result.error.message =
       "symitar-app-port is required when using HTTPS connection"
  /\ ClientsConstructed = 0

\* C5: an empty or whitespace-only key fails immediately with an
\* AuthenticationError, with zero network requests and zero timers.
C5_BlankKeyFailsFast ==
  AllWhiteSpace(config.apiKey) =>
    /\ fetchCalls = 0
    /\ timersStarted = 0
    /\ pc # "start" =>
         /\ validation.status = "rejected"
         /\ validation.error.kind = "AuthenticationError"

\* a key of blanks only has been rejected
C5_Witness ==
  /\ Len(config.apiKey) > 0
  /\ AllWhiteSpace(config.apiKey)
  /\ validation.status = "rejected"
  /\ fetchCalls = 0

\* C6: an AuthenticationError is never retried: an attempt classified as an
\* authentication failure is the last attempt, no request and no backoff wait
\* follows it, and validateApiKey throws that AuthenticationError; an HTTP
\* 401 on the first attempt yields exactly 1 attempt.
C6_AuthNeverRetried ==
  /\ \A i \in 1..Len(history) :
       history[i] = "authentication" =>
         /\ i = Len(history)
         /\ fetchCalls = i
         /\ Len(waits) = i - 1
         /\ validation.status = "rejected"
         /\ validation.error.kind = "AuthenticationError"
  /\ (Len(history) = 1 /\ lastStatus = 401) =>
       fetchCalls = 1 /\ validation.error.kind = "AuthenticationError"

\* the third attempt, after two retryable failures, was an authentication
\* failure
C6_Witness ==
  /\ history = <<"retryable", "retryable", "authentication">>
  /\ validation.error.kind = "AuthenticationError"
  /\ fetchCalls = 3

\* C7: a ConnectionError is surfaced only after exactly 3 requests have been
\* issued and each failed retryably; three consecutive retryable failures
\* give exactly 3 attempts and a ConnectionError.
C7_ConnectionErrorAfterThree ==
  /\ validation.error.kind = "ConnectionError" =>
       /\ fetchCalls = 3
       /\ history = <<"retryable", "retryable", "retryable">>
  /\ history = <<"retryable", "retryable", "retryable">> =>
       /\ fetchCalls = 3
       /\ validation.status = "rejected"
       /\ validation.error.kind = "ConnectionError"

\* three network failures in a row
C7_Witness ==
  /\ history = <<"retryable", "retryable", "retryable">>
  /\ lastFailure = Original(PlainError("Network error"))
  /\ validation.error.kind = "ConnectionError"

\* C8: an attempt that received a response is classified from the response:
\* a non-success status, a payload without a boolean isFound or without a
\* subscriptions array, isFound = false, and isFound = true with no
\* subscriptions are authentication failures; the attempt succeeds only for
\* a success status with a valid payload, isFound = true and at least one
\* subscription.
C8_ResponseClassification ==
  LET ok == lastStatus >= 200 /\ lastStatus <= 299
      wellFormed ==
        /\ lastData.jsType = "object"
        /\ lastData.isFoundKind = "boolean"
        /\ lastData.subsKind = "array"
      good == ok /\ wellFormed /\ lastData.isFound /\ lastData.subsLen > 0
      classified ==
        /\ pc \notin {"start", "fetching", "json"}
        /\ history # <<>>
        /\ lastStatus # 0
        /\ ~ok \/ lastData # NoPayload
  IN /\ classified =>
          history[Len(history)] =
            IF good THEN "success" ELSE "authentication"
     /\ validation.status = "resolved" => good

\* isFound = true with an empty subscriptions array was rejected
C8_Witness ==
  /\ lastStatus = 200
  /\ lastData.isFoundKind = "boolean" /\ lastData.isFound
  /\ lastData.subsKind = "array" /\ lastData.subsLen = 0
  /\ validation.error.kind = "AuthenticationError"

\* C9: the wait after a retryable failure of attempt k, k not the final
\* attempt, is min(500 * 2^(k-1), 10000) ms: 500 after attempt 1, 1000 after
\* attempt 2; no wait follows the final attempt, a success or an
\* authentication failure; at most 2 waits in a run.
C9_BackoffSchedule ==
  /\ Len(waits) <= 2
  /\ \A k \in 1..Len(waits) :
       waits[k] = (IF 500 * 2^(k - 1) < 10000 THEN 500 * 2^(k - 1) ELSE 10000)
  /\ Len(waits) >= 1 => waits[1] = 500
  /\ Len(waits) >= 2 => waits[2] = 1000
  /\ Len(waits) =
       Cardinality({i \in 1..Len(history) :
                      history[i] = "retryable" /\ i < 3})

\* a run that waited twice and then failed for the third time
C9_Witness ==
  /\ waits = <<500, 1000>>
  /\ Len(history) = 3
  /\ validation.status = "rejected"

\* C10: timeout timers never leak across attempts: at most one is pending at
\* any moment, none of an earlier attempt is pending while a request is in
\* flight, and none is pending once validateApiKey has returned or thrown.
C10_NoTimerLeak ==
  /\ Cardinality(timers) <= 1
  /\ pc \in {"fetching", "json"} => timers \subseteq {attempt}
  /\ validation.status # "pending" => timers = {}

\* all three attempts started a timer and none is left after the
\* ConnectionError
C10_Witness ==
  /\ timersStarted = 3
  /\ validation.error.kind = "ConnectionError"
  /\ timers = {}

\* C11: the ConnectionError raised after exhausted retries carries the
\* failure of the last (third) attempt, port 443, the secure flag, and as
\* host the host of the licensing URL the attempts were issued against, for
\* every stage prefix and sandbox flag.
C11_ConnectionErrorDetails ==
  validation.error.kind = "ConnectionError" =>
    /\ validation.error.originalError = lastFailure
    /\ validation.error.port = 443
    /\ validation.error.isSSL
    /\ \A i \in 1..Len(fetchHosts) : validation.error.host = fetchHosts[i]

\* C12: for a directory type that does not support install, the installed
\* and uninstalled counts of the SynchronizeResult are 0 and its installed
\* and uninstalled lists are empty, whatever lists the transport returned.
C12_NoInstallCountsForNonInstallTypes ==
  (pc = "done" /\ result.status = "resolved"
     /\ config.directoryType \in {"letterFiles", "dataFiles", "helpFiles"})
    => /\ returned.filesInstalled = 0
       /\ returned.filesUninstalled = 0
       /\ returned.installedFiles = <<>>
       /\ returned.uninstalledFiles = <<>>

\* C13: calculateTotalChanges(type, outcome) is |deployed| + |deleted| +
\* |installed| + |uninstalled| for powerOns and |deployed| + |deleted| for
\* the three other types; lists of lengths 2, 1, 1, 2 give 6 for powerOns
\* and 3 otherwise, and four empty lists give 0.
C13_TotalChanges ==
  (call.fn = "calculateTotalChanges" /\ ret.status = "returned") =>
    LET o == call.outcome
        base == Len(o.deployed) + Len(o.deleted)
        lens == <<Len(o.deployed), Len(o.deleted), Len(o.installed),
                  Len(o.uninstalled)>>
    IN /\ call.type = "powerOns" =>
            ret.num = base + Len(o.installed) + Len(o.uninstalled)
       /\ call.type \in {"letterFiles", "dataFiles", "helpFiles"} =>
            ret.num = base
       /\ lens = <<2, 1, 1, 2>> =>
            ret.num = IF call.type = "powerOns" THEN 6 ELSE 3
       /\ lens = <<0, 0, 0, 0>> => ret.num = 0

C13_Witness ==
  /\ call.fn = "calculateTotalChanges"
  /\ call.type = "letterFiles"
  /\ Len(call.outcome.deployed) = 2
  /\ Len(call.outcome.deleted) = 1
  /\ Len(call.outcome.installed) = 1
  /\ Len(call.outcome.uninstalled) = 2
  /\ ret.status = "returned"
  /\ ret.num = 3

\* C14: getInstallList(type, list) returns the list unchanged for powerOns
\* and the empty list for letterFiles, dataFiles and helpFiles, whatever the
\* list holds, and never throws.
C14_InstallListOnlyForPowerOns ==
  (call.fn = "getInstallList" /\ ret.status # "none") =>
    /\ ret.status = "returned"
    /\ call.type = "powerOns" => ret.list = call.list
    /\ call.type \in {"letterFiles", "dataFiles", "helpFiles"} =>
         ret.list = <<>>

C14_Witness ==
  /\ call.fn = "getInstallList"
  /\ call.type = "helpFiles"
  /\ call.list = <<"A.PO", "B.PO">>
  /\ ret.status = "returned"
  /\ ret.list = <<>>

\* C15: isValidDirectoryType returns true for exactly the four identifiers
\* powerOns, letterFiles, dataFiles, helpFiles and false for every other
\* string; getDirectoryConfig throws, listing the four, for every other
\* string.
C15_ExactlyFourTypes ==
  LET known == call.type \in {"powerOns", "letterFiles", "dataFiles",
                              "helpFiles"}
  IN /\ (call.fn = "isValidDirectoryType" /\ ret.status = "returned") =>
          ret.bool = known
     /\ (call.fn = "getDirectoryConfig" /\ ret.status # "none") =>
          IF known
          THEN ret.status = "returned" /\ ret.cfg = DIRECTORY_CONFIG[call.type]
          ELSE /\ ret.status = "threw"
               /\ ret.list = <<"powerOns", "letterFiles", "dataFiles",
                               "helpFiles">>

\* C16: getLocalDirectoryPath returns a non-empty override when there is
\* one and the type's default path otherwise; the four defaults differ
\* pairwise.
C16_LocalPathOverrideOrDefault ==
  LET default ==
        [t \in {"powerOns", "letterFiles", "dataFiles", "helpFiles"} |->
           CASE t = "powerOns" -> "REPWRITERSPECS/"
             [] t = "letterFiles" -> "LETTERSPECS/"
             [] t = "dataFiles" -> "DATAFILES/"
             [] t = "helpFiles" -> "HELPFILES/"]
  IN (call.fn = "getLocalDirectoryPath" /\ ret.status = "returned") =>
       /\ ret.str = IF call.path \in {PathUndefined, <<"">>}
                    THEN default[call.type]
                    ELSE call.path[1]
       /\ \A t \in DirectoryTypes \ {call.type} :
            DIRECTORY_CONFIG[t].defaultPath #
              DIRECTORY_CONFIG[call.type].defaultPath

C16_Witness ==
  /\ call.fn = "getLocalDirectoryPath"
  /\ call.type = "dataFiles"
  /\ call.path = <<"">>
  /\ ret.status = "returned"
  /\ ret.str = "DATAFILES/"

\* C17: when synchronizeToSymitar succeeds, its four file lists are the four
\* lists synchronizeFiles resolved to, element for element and in order,
\* and each count is the length of its list.
C17_OutcomeVerbatim ==
  (pc = "done" /\ result.status = "resolved") =>
    /\ returned.deployedFiles = syncOutcome.deployed
    /\ returned.deletedFiles = syncOutcome.deleted
    /\ returned.installedFiles = syncOutcome.installed
    /\ returned.uninstalledFiles = syncOutcome.uninstalled
    /\ returned.filesDeployed = Len(returned.deployedFiles)
    /\ returned.filesDeleted = Len(returned.deletedFiles)
    /\ returned.filesInstalled = Len(returned.installedFiles)
    /\ returned.filesUninstalled = Len(returned.uninstalledFiles)

C17_Witness ==
  /\ pc = "done"
  /\ result.status = "resolved"
  /\ syncOutcome.deployed = <<"B.PO", "A.PO">>
  /\ returned.deployedFiles = <<"B.PO", "A.PO">>
  /\ returned.filesDeployed = 2
  /\ returned.filesUninstalled = 0

\* C18: one call of synchronizeToSymitar constructs at most one transport
\* client and calls synchronizeFiles at most once, and when synchronizeFiles
\* throws, that same error is what synchronizeToSymitar throws after the
\* teardown.
C18_SyncFailureNotRetried ==
  /\ sshClients + httpsClients <= 1
  /\ syncCalls <= 1
  /\ (pc = "done" /\ syncSettled.status = "rejected") =>
       /\ endCalls = 1
       /\ result = Rejected(syncSettled.error)

\* C19: the synchronizeFiles call of either transport receives the same
\* semantic inputs, each derived from the configuration: local path, install
\* list (powerOns only), dry-run flag, remote directory of the type, sync
\* mode mapped one-to-one, validate-ignore list; and the result depends on
\* the transport's outcome only.
C19_TransportAgnostic ==
  LET semantic == IF config.connectionType = "https"
                  THEN syncArgs
                  ELSE Tail(syncArgs)
      directory == CASE config.directoryType = "powerOns" -> "REPWRITERSPECS"
                     [] config.directoryType = "letterFiles" -> "LETTERSPECS"
                     [] config.directoryType = "dataFiles" -> "DATAFILES"
                     [] config.directoryType = "helpFiles" -> "HELPFILES"
      mode == CASE config.syncMode = "push" -> "SymitarSyncMode.PUSH"
                [] config.syncMode = "pull" -> "SymitarSyncMode.PULL"
                [] config.syncMode = "mirror" -> "SymitarSyncMode.MIRROR"
      installList == IF config.directoryType = "powerOns"
                     THEN config.installPowerOnList
                     ELSE <<>>
  IN /\ (syncCalls = 1 /\ config.directoryType \in DirectoryTypes) =>
          semantic = <<config.localDirectoryPath, installList,
                       config.isDryRun, directory, mode,
                       config.validateIgnoreList>>
     /\ (pc = "done" /\ result.status = "resolved") =>
          returned =
            [filesDeployed |-> Len(syncOutcome.deployed),
             filesDeleted |-> Len(syncOutcome.deleted),
             filesInstalled |-> Len(syncOutcome.installed),
             filesUninstalled |-> Len(syncOutcome.uninstalled),
             deployedFiles |-> syncOutcome.deployed,
             deletedFiles |-> syncOutcome.deleted,
             installedFiles |-> syncOutcome.installed,
             uninstalledFiles |-> syncOutcome.uninstalled]

C19_Witness ==
  /\ config.connectionType = "ssh"
  /\ config.directoryType = "letterFiles"
  /\ config.syncMode = "mirror"
  /\ config.isDryRun
  /\ config.localDirectoryPath = "REPWRITERSPECS/"
  /\ config.installPowerOnList = <<"A.PO">>
  /\ config.validateIgnoreList = <<"A.PO">>
  /\ syncCalls = 1
  /\ syncArgs = <<"symitarConfig", "REPWRITERSPECS/", <<>>, TRUE,
                  "LETTERSPECS", "SymitarSyncMode.MIRROR", <<"A.PO">>>>
  /\ pc = "done"
  /\ result.status = "resolved"

\* what went wrong in a finished run(), read off the steps that failed
FailureKind ==
  IF invocations = 0 THEN "configuration"
  ELSE IF validation.status = "rejected"
  THEN IF validation.error.kind = "AuthenticationError"
       THEN "authentication"
       ELSE "connection"
  ELSE IF ready.status = "rejected" \/ syncSettled.status = "rejected"
  THEN "sync"
  ELSE IF endSettled.status = "rejected" THEN "teardown"
  ELSE "none"

\* the category run() reports a failure of each kind under
CategoryOfKind ==
  [k \in {"configuration", "authentication", "connection", "sync"} |->
     CASE k = "configuration" ->
            ReportFailure(PlainError("Invalid sync mode")).category
       [] k = "authentication" ->
            ReportFailure(AuthenticationError("Invalid API key", <<"k">>,
                                              NoHost)).category
       [] k = "connection" ->
            ReportFailure(ConnectionError("Connection failed", NoHost,
                                          LicensePort, TRUE,
                                          "network")).category
       [] k = "sync" -> ReportFailure(PlainError("Sync failed")).category]

\* C20: a failing run() ends with exactly one failure report; configuration,
\* authentication, connection and sync failures are reported under four
\* different categories; a failure of the teardown alone is reported as a
\* warning and not as the failure of the run.
C20_FailureCategories ==
  runPc = "done" =>
    IF FailureKind = "none" THEN failures = <<>>
    ELSE IF FailureKind = "teardown"
    THEN failures = <<>> /\ Len(warnings) = 1
    ELSE /\ Len(failures) = 1
         /\ \A k \in DOMAIN CategoryOfKind \ {FailureKind} :
              failures[1].category # CategoryOfKind[k]

\* some validation of run() rejects the inputs: the directory type is not
\* one of the four, the connection type or sync mode is unknown, the host
\* name is malformed, or a port or the sym number is missing or out of range
InvalidInputs ==
  \/ inputs.directoryType \notin {"powerOns", "letterFiles", "dataFiles",
                                  "helpFiles"}
  \/ inputs.connectionType \notin {"https", "ssh"}
  \/ inputs.syncMode \notin {"push", "pull", "mirror"}
  \/ ~HostnameMatches(inputs.symitarHostname)
  \/ /\ inputs.sshPort # <<>>
     /\ OutOfRange(parseInt(inputs.sshPort), 1, 65535)
  \/ /\ inputs.connectionType = "https"
     /\ OutOfRange(parseInt(inputs.symitarAppPort), 1, 65535)
  \/ OutOfRange(parseInt(inputs.symNumber), 0, 9999)

\* C21: when an input validation of run() fails, synchronizeToSymitar is
\* never invoked, no output is set and setFailed is called exactly once.
C21_InvalidInputsShortCircuit ==
  (InvalidInputs /\ runPc # "start") =>
    /\ invocations = 0
    /\ pc = "idle"
    /\ outputs = <<>>
    /\ Len(failures) = 1

\* C23 as stated: an unsupplied dry-run input gives isDryRun = true, and a
\* run is a real one only if dry-run was set to false.
C23_DryRunUnlessFalse ==
  invocations = 1 =>
    /\ inputs.dryRun = NotSupplied => config.isDryRun
    /\ ~config.isDryRun => inputs.dryRun = <<"false">>

\* C23 as amended: an unsupplied dry-run input gives isDryRun = true, and
\* isDryRun is true exactly when the input is unsupplied or is the string
\* 'true'; every other value makes a real run.
C23_DryRunOnlyIfTrue ==
  invocations = 1 =>
    /\ inputs.dryRun = NotSupplied => config.isDryRun
    /\ config.isDryRun <=> inputs.dryRun \in {NotSupplied, <<"true">>}
    /\ syncCalls = 1 =>
         (IF config.connectionType = "https"
          THEN syncArgs[3] ELSE syncArgs[4]) = config.isDryRun

C23_Witness ==
  /\ inputs.dryRun = NotSupplied
  /\ invocations = 1
  /\ config.isDryRun
  /\ config.connectionType = "ssh"
  /\ syncCalls = 1
  /\ syncArgs[4] = TRUE
  /\ runPc = "done"

\* C25: the steps of one invocation never overlap: when a transport client
\* exists, every license request has completed and no backoff wait is
\* running; on SSH the synchronize call is issued only once the readiness
\* signal has resolved; end() is invoked only after the synchronize call has
\* settled and never while it is in flight.
C25_StepsDoNotOverlap ==
  /\ sshClients + httpsClients >= 1 =>
       /\ validation.status # "pending"
       /\ Len(history) = fetchCalls
       /\ pc \notin {"start", "fetching", "json", "backoff"}
  /\ (syncCalls >= 1 /\ config.connectionType = "ssh") =>
       ready.status = "resolved"
  /\ (syncCalls >= 1 /\ syncSettled.status = "pending") => endCalls = 0
  /\ (endCalls >= 1 /\ syncCalls >= 1) => syncSettled.status # "pending"
  /\ endCalls >= 1 => sshClients + httpsClients = 1

\* an SSH call that retried the license check twice, then synchronized and
\* closed its client
C25_Witness ==
  /\ config.connectionType = "ssh"
  /\ fetchCalls = 3
  /\ Len(waits) = 2
  /\ ready.status = "resolved"
  /\ syncSettled.status = "resolved"
  /\ endCalls = 1
  /\ pc = "done"

\* C26: the timeout timer of an attempt that failed retryably is cancelled
\* before the backoff wait begins, so no per-request timer is pending, or
\* fires, during a backoff wait.
C26_TimerCancelledBeforeBackoff ==
  pc = "backoff" => attempt \notin timers

\* C27: an AuthenticationError of validateApiKey carries the API key; it
\* carries the host of the licensing endpoint unless the key was missing,
\* and only then an empty host.
C27_AuthenticationErrorCarriesHost ==
  (validation.status = "rejected"
     /\ validation.error.kind = "AuthenticationError") =>
    /\ validation.error.apiKey = config.apiKey
    /\ IF fetchCalls = 0
       THEN validation.error.host = <<>>
       ELSE /\ validation.error.host # <<>>
            /\ validation.error.host = fetchHosts[Len(fetchHosts)]

\* C28: on SSH synchronizeFiles is never called before isReady has resolved;
\* when isReady rejects it is never called, end() is called exactly once and
\* synchronizeToSymitar throws the readiness error.
C28_ReadinessGatesSync ==
  config.connectionType = "ssh" =>
    /\ syncCalls >= 1 => ready.status = "resolved"
    /\ ready.status = "rejected" =>
         /\ syncCalls = 0
         /\ endCalls = 1
         /\ pc = "done" => result = Rejected(ready.error)

\* C29: the install list handed to synchronizeFiles is
\* config.installPowerOnList for powerOns and empty for letterFiles,
\* dataFiles and helpFiles, on both transports; an install list supplied for
\* one of those three types is dropped and does not stop the call from
\* reaching the transport.
C29_InstallListHandedOver ==
  LET handed == IF config.connectionType = "https"
                THEN syncArgs[2]
                ELSE syncArgs[3]
      others == {"letterFiles", "dataFiles", "helpFiles"}
  IN /\ (syncCalls = 1 /\ config.directoryType = "powerOns") =>
          handed = config.installPowerOnList
     /\ (syncCalls = 1 /\ config.directoryType \in others) =>
          handed = <<>>
     /\ (/\ config.directoryType \in others
         /\ validation.status = "resolved"
         /\ config.syncMode \in {"push", "pull", "mirror"}
         /\ (config.connectionType = "https"
               => ~MissingAppPort(config.symitarAppPort))
         /\ pc \in {"syncing", "ending", "done"}) =>
          /\ sshClients + httpsClients = 1
          /\ (ready.status # "rejected") => syncCalls = 1

C29_Witness ==
  /\ config.directoryType = "dataFiles"
  /\ config.connectionType = "https"
  /\ config.installPowerOnList = <<"A.PO">>
  /\ syncCalls = 1
  /\ syncArgs[2] = <<>>
  /\ pc = "done"
  /\ result.status = "resolved"

\* C30: with a directory type that is not one of the four, or a sync mode
\* that is not push, pull or mirror, synchronizeToSymitar constructs no
\* client, calls neither synchronizeFiles nor end(), validates the license
\* once only, and throws.
C30_UnknownTypeOrModeIsFatal ==
  (\/ config.directoryType \notin {"powerOns", "letterFiles", "dataFiles",
                                   "helpFiles"}
   \/ config.syncMode \notin {"push", "pull", "mirror"}) =>
    /\ sshClients + httpsClients = 0
    /\ syncCalls = 0
    /\ endCalls = 0
    /\ fetchCalls <= 3
    /\ pc = "done" => result.status = "rejected"

\* index of the first attempt, among the first three, whose outcome is not a
\* retryable failure; 0 if there is none
FirstDecisive(h) ==
  LET S == {i \in 1..Min(Len(h), MAX_API_RETRIES) : h[i] # "retryable"} IN
  IF S = {} THEN 0 ELSE CHOOSE i \in S : \A j \in S : i <= j

\* C31: for a key that is not empty after trimming, once validateApiKey has
\* settled its result is that of the first attempt among the first three
\* that is not a retryable failure: resolved if that attempt succeeded,
\* AuthenticationError if it was an authentication failure, ConnectionError
\* if all three were retryable failures; the number of requests issued is
\* the index of that attempt, or 3 if there is none.
C31_FirstDecisiveAttemptDecides ==
  (~IsBlankKey(config.apiKey) /\ validation.status # "pending") =>
    LET i == FirstDecisive(history) IN
    IF i = 0
    THEN /\ Len(history) = 3
         /\ fetchCalls = 3
         /\ validation.status = "rejected"
         /\ validation.error.kind = "ConnectionError"
    ELSE /\ Len(history) = i
         /\ fetchCalls = i
         /\ history[i] = "success" => validation = Resolved
         /\ history[i] = "authentication" =>
              /\ validation.status = "rejected"
              /\ validation.error.kind = "AuthenticationError"

\* a retryable failure, then a successful second attempt
C31_Witness ==
  /\ ~IsBlankKey(config.apiKey)
  /\ history = <<"retryable", "success">>
  /\ validation = Resolved
  /\ fetchCalls = 2

\* C32: validateApiKey terminates: when every request completes or is aborted
\* and every backoff timer fires, it eventually returns or throws; it never
\* issues more than 3 requests nor waits more than 2 backoffs, and it never
\* returns without a successful attempt (it does not fall out of the loop).
C32_ValidationTerminates ==
  /\ <>(validation.status # "pending")
  /\ [](/\ fetchCalls <= 3
        /\ Len(waits) <= 2
        /\ validation = Resolved =>
             /\ history # <<>>
             /\ history[Len(history)] = "success")

\* validateApiKey has thrown after three requests and two backoff waits, and
\* no timer is left pending
C32_Witness ==
  /\ validation.status = "rejected"
  /\ fetchCalls = 3
  /\ Len(waits) = 2
  /\ timers = {}
  /\ pc = "done"

\* C33: run() invokes synchronizeToSymitar only with sshPort in 1..65535 and
\* symNumber in 0..9999; over https symitarAppPort is defined and in
\* 1..65535, over ssh it is undefined.
C33_NumbersInRange ==
  invocations >= 1 =>
    /\ config.sshPort >= 1 /\ config.sshPort <= 65535
    /\ config.symNumber >= 0 /\ config.symNumber <= 9999
    /\ config.connectionType = "https" =>
         /\ config.symitarAppPort.kind = "number"
         /\ config.symitarAppPort.val >= 1
         /\ config.symitarAppPort.val <= 65535
    /\ config.connectionType = "ssh" => config.symitarAppPort = Undefined

\* synchronizeToSymitar was invoked over ssh although an app port was given,
\* and the port is undefined in its configuration
C33_Witness ==
  /\ invocations = 1
  /\ inputs.connectionType = "ssh"
  /\ inputs.symitarAppPort = <<"1">>
  /\ config.symitarAppPort = Undefined
  /\ config.sshPort = 22

\* synchronizeToSymitar was invoked by run() and returned a result
ReturnedSuccessfully == invocations = 1 /\ result.status = "resolved"

\* C34: run() sets the four outputs exactly when synchronizeToSymitar
\* returned successfully and calls setFailed exactly when it did not; no run
\* does both, and no finished run does neither.
C34_OutputsXorFailure ==
  /\ ~(outputs # <<>> /\ failures # <<>>)
  /\ outputs # <<>> =>
       /\ ReturnedSuccessfully
       /\ [k \in 1..Len(outputs) |-> outputs[k][1]] =
            <<"files-deployed", "files-deleted", "files-installed",
              "files-uninstalled">>
  /\ failures # <<>> => Len(failures) = 1 /\ ~ReturnedSuccessfully
  /\ runPc = "done" =>
       /\ ReturnedSuccessfully => outputs # <<>>
       /\ ~ReturnedSuccessfully => failures # <<>>

\* a finished run whose synchronizeToSymitar returned: four outputs, no
\* failure
C34_Witness ==
  /\ runPc = "done"
  /\ ReturnedSuccessfully
  /\ Len(outputs) = 4
  /\ failures = <<>>

\* C35: the summary of run() agrees with its outputs: it reports "No changes
\* to synchronize" exactly when the four output counts are all 0, for every
\* directory type and every outcome of the transport.
C35_SummaryMatchesOutputs ==
  (runPc = "done" /\ outputs # <<>>) =>
    (summary = "No changes to synchronize"
       <=> \A k \in 1..Len(outputs) : outputs[k][2] = 0)

\* the calls that write a log line or a failure message
Emits(e) ==
  e.fn \in {"info", "error", "debug", "setFailed", "console.info",
            "console.error"}

\* C36: in a run() that has read its inputs, the API key, the Symitar user
\* password and the SSH password are registered with setSecret before any
\* log line, validation error or failure message is emitted, and no line
\* written during the run, by run() or by the functions it calls, holds the
\* value of the API key: the failure handling writes a placeholder for it.
C36_SecretsMaskedBeforeOutput ==
  /\ \A e \in 1..Len(log) :
       Emits(log[e]) =>
         /\ \A n \in {"api-key", "symitar-user-password", "ssh-password"} :
              \E m \in 1..(e - 1) :
                log[m].fn = "setSecret" /\ log[m].shows = <<n>>
         /\ \A k \in 1..Len(log[e].shows) : log[e].shows[k] # "api-key"
  /\ failures # <<>> => \E e \in 1..Len(log) : log[e].fn = "setFailed"
  /\ (failures # <<>> /\ failures[1].category = "Authentication failed") =>
       \E e \in 1..Len(log) :
         /\ log[e].fn = "error"
         /\ log[e].text \in {"API Key: ***", "API Key: not provided"}

\* the pieces of s between commas that hold a non-blank character, each taken
\* from its first to its last non-blank character, in the order they occur
Fields(s) ==
  LET cuts == {0, Len(s) + 1} \cup {i \in 1..Len(s) : s[i] = ","}
      next(a) == CHOOSE b \in cuts : b > a /\ \A c \in cuts : c > a => b <= c
      ink(a) == {j \in (a + 1)..(next(a) - 1) : s[j] \notin WhiteSpace}
      live == {a \in cuts : a <= Len(s) /\ ink(a) # {}}
      lo(a) == CHOOSE j \in ink(a) : \A m \in ink(a) : j <= m
      hi(a) == CHOOSE j \in ink(a) : \A m \in ink(a) : j >= m
      rank(a) == Cardinality({b \in live : b <= a})
  IN [k \in 1..Cardinality(live) |->
        LET a == CHOOSE c \in live : rank(c) = k
        IN SubSeq(s, lo(a), hi(a))]

\* list is what the claim says run() makes of the input text
ParsedAs(text, list) ==
  /\ list = Fields(text)
  /\ \A k \in 1..Len(list) :
       /\ list[k] # <<>>
       /\ list[k][1] \notin WhiteSpace
       /\ list[k][Len(list[k])] \notin WhiteSpace
  /\ (\A j \in 1..Len(text) : text[j] \in WhiteSpace \cup {","}) =>
       list = <<>>

\* C37: run() passes install-poweron-list and validate-ignore-list to
\* synchronizeToSymitar as the comma-separated items of the input, each
\* trimmed, empty items dropped, order kept; an empty or all-blank input
\* gives the empty list, and no name passed is empty or padded with blanks.
C37_ListsParsed ==
  invocations >= 1 =>
    /\ ParsedAs(inputs.installPowerOnList, config.installPowerOnList)
    /\ ParsedAs(inputs.validateIgnoreList, config.validateIgnoreList)

\* "A, B " was passed on as the two names A and B
C37_Witness ==
  /\ invocations = 1
  /\ inputs.installPowerOnList = <<"A", ",", " ", "B", " ">>
  /\ config.installPowerOnList = <<<<"A">>, <<"B">>>>

====
